---- MODULE Spec2Model ----
(***************************************************************************)
(* Model of app.py: a Streamlit dashboard over a Google spreadsheet.       *)
(*                                                                         *)
(* The spreadsheet is the only persistent state.  A worksheet is modelled  *)
(* by its used range: a sequence of rows of cells, without trailing empty  *)
(* cells and rows, which is what the Sheets values API returns.  Python    *)
(* values and cells are records [t, s, n]: a str carries its text s (a     *)
(* sequence of characters), an int its number n.                           *)
(***************************************************************************)
EXTENDS Integers, Sequences, FiniteSets, TLC

\* ------------------------------------------------------------ bounds
\* Most records in one upsert_sheet call of the gateway specification.
MaxRecs == 2
\* Most update requests (saved form submissions) in one behaviour of the
\* application.
MaxSubmits == 2

\* ------------------------------------------------- values and texts
PyStr(s) == [t |-> "str", s |-> s, n |-> 0]
PyInt(n) == [t |-> "int", s |-> <<>>, n |-> n]
PyTrue == [t |-> "bool", s |-> <<>>, n |-> 1]
NaN == [t |-> "float", s |-> <<"n", "a", "n">>, n |-> 0]
Blank == PyStr(<<>>)

Digits == <<"0", "1", "2", "3", "4", "5", "6", "7", "8", "9">>
UpperCase == <<"A", "B", "C", "D", "E", "F", "G", "H", "I", "J", "K", "L", "M",
               "N", "O", "P", "Q", "R", "S", "T", "U", "V", "W", "X", "Y", "Z">>
LowerCase == <<"a", "b", "c", "d", "e", "f", "g", "h", "i", "j", "k", "l", "m",
               "n", "o", "p", "q", "r", "s", "t", "u", "v", "w", "x", "y", "z">>

Range(f) == {f[i] : i \in DOMAIN f}

\* str.lower() on one ASCII character.
LowerChar(c) ==
    IF \E i \in DOMAIN UpperCase : UpperCase[i] = c
    THEN LowerCase[CHOOSE i \in DOMAIN UpperCase : UpperCase[i] = c]
    ELSE c

\* str.lower()
Lower(s) == [i \in DOMAIN s |-> LowerChar(s[i])]

\* str.replace(" ", "-")
Hyphenate(s) == [i \in DOMAIN s |-> IF s[i] = " " THEN "-" ELSE s[i]]

\* Variant of DeriveId: the name is hyphenated but not lowercased.
DeriveIdNoLower(name) == IF name # <<>> THEN Hyphenate(name) ELSE <<>>

\* app.py line 80: name.lower().replace(" ","-") if name else ""
DeriveId(name) == IF name # <<>> THEN Hyphenate(Lower(name)) ELSE <<>>

\* str.strip() for the space character.
RECURSIVE LStrip(_)
LStrip(s) == IF s # <<>> /\ Head(s) = " " THEN LStrip(Tail(s)) ELSE s
RECURSIVE RStrip(_)
RStrip(s) ==
    IF s # <<>> /\ s[Len(s)] = " " THEN RStrip(SubSeq(s, 1, Len(s) - 1)) ELSE s
Strip(s) == LStrip(RStrip(s))

DigitValue(c) == (CHOOSE i \in DOMAIN Digits : Digits[i] = c) - 1
AllDigits(s) == s # <<>> /\ \A i \in DOMAIN s : s[i] \in Range(Digits)
Unsigned(s) == IF s # <<>> /\ Head(s) \in {"-", "+"} THEN Tail(s) ELSE s

\* int(text) succeeds: optional blanks around an optionally signed digit string.
IsIntText(s) == AllDigits(Unsigned(Strip(s)))

RECURSIVE DigitsValue(_)
DigitsValue(s) ==
    IF s = <<>> THEN 0
    ELSE 10 * DigitsValue(SubSeq(s, 1, Len(s) - 1)) + DigitValue(s[Len(s)])

IntOfText(s) ==
    LET t == Strip(s)
    IN  IF Head(t) = "-" THEN 0 - DigitsValue(Tail(t)) ELSE DigitsValue(Unsigned(t))

\* float(text) gives a non-finite number: nan, inf, infinity in any case.
IsNonFiniteText(s) ==
    Lower(Unsigned(Strip(s))) \in
        {<<"n", "a", "n">>, <<"i", "n", "f">>,
         <<"i", "n", "f", "i", "n", "i", "t", "y">>}

RECURSIVE NatText(_)
NatText(n) ==
    IF n < 10 THEN <<Digits[n + 1]>>
    ELSE NatText(n \div 10) \o <<Digits[(n % 10) + 1]>>

\* A number cell as the Sheets API formats it.
IntText(n) == IF n < 0 THEN <<"-">> \o NatText(0 - n) ELSE NatText(n)

\* The text the values API returns for a cell (FORMATTED_VALUE).
CellText(c) ==
    CASE c.t = "str" -> c.s
      [] c.t = "int" -> IntText(c.n)
      [] c.t = "bool" -> <<"T", "R", "U", "E">>
      [] OTHER -> c.s

\* gspread numericise(): int(), then float(), else the text itself.
Numericise(s) ==
    IF \E i \in DOMAIN s : s[i] = "_" THEN PyStr(s)
    ELSE IF IsIntText(s) THEN PyInt(IntOfText(s))
    ELSE IF IsNonFiniteText(s) THEN NaN
    ELSE PyStr(s)

\* ------------------------------------------------------------ records
\* A Python dict is a sequence of items [k, v] in insertion order.
Keys(r) == [i \in DOMAIN r |-> r[i].k]
HasKey(r, k) == \E i \in DOMAIN r : r[i].k = k

\* dict.get(k, default)
Get(r, k, default) ==
    IF HasKey(r, k) THEN r[CHOOSE i \in DOMAIN r : r[i].k = k].v ELSE default

\* ------------------------------------------------------ the worksheet
Max(a, b) == IF a > b THEN a ELSE b

\* The cell at row r, column c of a used range; cells outside it are empty.
CellAt(g, r, c) == IF r <= Len(g) /\ c <= Len(g[r]) THEN g[r][c] ELSE Blank

RECURSIVE TrimRow(_)
TrimRow(row) ==
    IF row # <<>> /\ row[Len(row)] = Blank
    THEN TrimRow(SubSeq(row, 1, Len(row) - 1)) ELSE row

RECURSIVE TrimRows(_)
TrimRows(g) ==
    IF g # <<>> /\ g[Len(g)] = <<>> THEN TrimRows(SubSeq(g, 1, Len(g) - 1)) ELSE g

\* The used range of a grid: no trailing empty cell in a row, no trailing empty row.
Trim(g) == TrimRows([r \in DOMAIN g |-> TrimRow(g[r])])

Width(g) ==
    IF g = <<>> THEN 0
    ELSE CHOOSE w \in {Len(g[r]) : r \in DOMAIN g} : \A r \in DOMAIN g : Len(g[r]) <= w

\* Variant of UpdateA1: the data rows are appended below the used range.
UpdateAppend(g, data) == Trim(g \o (IF g = <<>> THEN data ELSE Tail(data)))

\* ws.update('A1', data): the cells of the rectangle data covers, from A1, take
\* the data; every other cell of the worksheet keeps its value.
UpdateA1(g, data) ==
    Trim([r \in 1..Max(Len(g), Len(data)) |->
            [c \in 1..Max(Width(g), Width(data)) |->
                IF r <= Len(data) /\ c <= Len(data[r])
                THEN data[r][c] ELSE CellAt(g, r, c)]])

\* A value the JSON encoder of the request refuses (allow_nan=False).
Serialisable(data) ==
    \A r \in DOMAIN data : \A c \in DOMAIN data[r] : data[r][c].t # "float"

\* Variant of SheetData: the header row is the union of all records' keys.
RECURSIVE UnionKeys(_, _)
UnionKeys(rows, acc) ==
    IF rows = <<>> THEN acc
    ELSE UnionKeys(Tail(rows),
                   acc \o SelectSeq(Keys(Head(rows)),
                                    LAMBDA k : \A i \in DOMAIN acc : acc[i] # k))
SheetDataAllKeys(rows) ==
    LET headers == UnionKeys(rows, <<>>)
    IN  <<[i \in DOMAIN headers |-> PyStr(headers[i])]>> \o
        [j \in DOMAIN rows |->
            [i \in DOMAIN headers |-> Get(rows[j], headers[i], Blank)]]

\* app.py lines 51-52: headers = list(rows[0].keys());
\* data = [headers] + [[r.get(h, "") for h in headers] for r in rows]
SheetData(rows) ==
    LET headers == Keys(rows[1])
    IN  <<[i \in DOMAIN headers |-> PyStr(headers[i])]>> \o
        [j \in DOMAIN rows |->
            [i \in DOMAIN headers |-> Get(rows[j], headers[i], Blank)]]

\* ws.get_all_values(): the used range as texts, every row filled to one width.
AllValues(g) ==
    [r \in DOMAIN g |-> [c \in 1..Width(g) |-> CellText(CellAt(g, r, c))]]

Unique(seq) == \A i, j \in DOMAIN seq : seq[i] = seq[j] => i = j

\* ws.get_all_records(): an empty worksheet gives no record; otherwise the
\* first row gives the keys, every later row one record of numericised
\* values, and a header row with a repeated key is refused.
AllRecords(g) ==
    LET vals == AllValues(g)
    IN  IF vals = <<>> THEN [ok |-> TRUE, recs |-> <<>>]
        ELSE IF ~Unique(vals[1]) THEN [ok |-> FALSE, recs |-> <<>>]
        ELSE [ok |-> TRUE,
              recs |-> [j \in 1..(Len(vals) - 1) |->
                          [i \in DOMAIN vals[1] |->
                              [k |-> vals[1][i], v |-> Numericise(vals[j + 1][i])]]]]

\* ---------------------------------------------------- the spreadsheet
\* A spreadsheet is the sequence of its worksheets [title, cells].
Titles(sh) == [i \in DOMAIN sh |-> sh[i].title]
HasSheet(sh, name) == \E i \in DOMAIN sh : sh[i].title = name
SheetIndex(sh, name) == CHOOSE i \in DOMAIN sh : sh[i].title = name
Cells(sh, name) == sh[SheetIndex(sh, name)].cells

\* app.py line 35
needed == <<"competitors", "files", "financial_runs", "financial_metrics", "news">>

\* Variant of ensure_sheets without the membership test of line 38.
RECURSIVE EnsureLoopUnchecked(_, _, _)
EnsureLoopUnchecked(sh, existing, names) ==
    IF names = <<>> THEN [sh |-> sh, added |-> <<>>]
    ELSE LET rest == EnsureLoopUnchecked(
                         sh \o <<[title |-> Head(names), cells |-> <<>>]>>,
                         existing, Tail(names))
         IN  [sh |-> rest.sh, added |-> <<Head(names)>> \o rest.added]

\* app.py lines 37-39: for name in needed: if name not in existing:
\* sh.add_worksheet(title=name, ...).  A new worksheet is empty.
RECURSIVE EnsureLoop(_, _, _)
EnsureLoop(sh, existing, names) ==
    IF names = <<>> THEN [sh |-> sh, added |-> <<>>]
    ELSE IF Head(names) \in Range(existing)
    THEN EnsureLoop(sh, existing, Tail(names))
    ELSE LET rest == EnsureLoop(
                         sh \o <<[title |-> Head(names), cells |-> <<>>]>>,
                         existing, Tail(names))
         IN  [sh |-> rest.sh, added |-> <<Head(names)>> \o rest.added]

\* app.py lines 34-39: the spreadsheet after ensure_sheets(sh) and the titles
\* it passed to add_worksheet.
ensure_sheets(sh) == EnsureLoop(sh, Titles(sh), needed)

\* app.py lines 41-44: read_sheet.  sh.worksheet(name) raises when the
\* spreadsheet has no worksheet of that title.
read_sheet(sh, name) ==
    IF ~HasSheet(sh, name) THEN [ok |-> FALSE, recs |-> <<>>]
    ELSE AllRecords(Cells(sh, name))

\* Variant of upsert_sheet whose empty-input branch clears the worksheet.
upsert_sheet_clearing(sh, name, rows) ==
    IF ~HasSheet(sh, name) THEN [sh |-> sh, issued |-> 0, raised |-> TRUE]
    ELSE IF rows = <<>>
    THEN [sh |-> [sh EXCEPT ![SheetIndex(sh, name)].cells = <<>>],
          issued |-> 1, raised |-> FALSE]
    ELSE IF ~Serialisable(SheetData(rows))
    THEN [sh |-> sh, issued |-> 0, raised |-> TRUE]
    ELSE [sh |-> [sh EXCEPT ![SheetIndex(sh, name)].cells =
                                UpdateA1(@, SheetData(rows))],
          issued |-> 1, raised |-> FALSE]

\* app.py lines 46-53: upsert_sheet.  The spreadsheet after the call, the
\* number of update requests it issued, and whether it raised.
upsert_sheet(sh, name, rows) ==
    IF ~HasSheet(sh, name) THEN [sh |-> sh, issued |-> 0, raised |-> TRUE]
    ELSE IF rows = <<>> THEN [sh |-> sh, issued |-> 0, raised |-> FALSE]
    ELSE IF ~Serialisable(SheetData(rows))
    THEN [sh |-> sh, issued |-> 0, raised |-> TRUE]
    ELSE [sh |-> [sh EXCEPT ![SheetIndex(sh, name)].cells =
                                UpdateA1(@, SheetData(rows))],
          issued |-> 1, raised |-> FALSE]

\* --------------------------------------------------------------- pages
\* One rendered element: a widget and, for st.dataframe, the frame's records.
El(w) == [w |-> w, data |-> <<>>]
Frame(recs) == [w |-> "dataframe", data |-> recs]
Info(text) == <<<<[k |-> <<"info">>, v |-> PyStr(<<text>>)]>>>>

\* st.dataframe(df if not df.empty else pd.DataFrame({"info": [text]}))
FrameOr(recs, text) == Frame(IF recs # <<>> THEN recs ELSE Info(text))

\* app.py lines 126-134: what main() renders before it asks for the clients.
Sidebar ==
    <<El("sidebar.title"), El("sidebar.caption"), El("sidebar.write:Timezone"),
      El("sidebar.radio:Navigate")>>

\* app.py lines 148-150: what main() renders after the page.
Footer ==
    <<El("sidebar.markdown"), El("sidebar.write:Google Sheet ID"),
      El("sidebar.write:Drive folder")>>

\* app.py lines 79-85: the record of a submitted form.  Of the ten text inputs
\* the name varies; the others are submitted empty.
NewRecord(name) ==
    <<[k |-> <<"id">>, v |-> PyStr(DeriveId(name))],
      [k |-> <<"name">>, v |-> PyStr(name)],
      [k |-> <<"website">>, v |-> Blank],
      [k |-> <<"ir_url">>, v |-> Blank],
      [k |-> <<"news_rss">>, v |-> Blank],
      [k |-> <<"linkedin_url">>, v |-> Blank],
      [k |-> <<"tickers">>, v |-> Blank],
      [k |-> <<"currency">>, v |-> Blank],
      [k |-> <<"fiscal_calendar_notes">>, v |-> Blank],
      [k |-> <<"drive_folder_id">>, v |-> Blank],
      [k |-> <<"tags">>, v |-> Blank],
      [k |-> <<"active(bool)">>, v |-> PyTrue],
      [k |-> <<"created_at">>, v |-> Blank],
      [k |-> <<"updated_at">>, v |-> Blank]>>

\* app.py line 86: pd.concat([df, pd.DataFrame([new])], ignore_index=True) if
\* not df.empty else pd.DataFrame([new]), then df.to_dict(orient="records").
\* The columns are df's, then new's other keys; a missing value is NaN.
ConcatNew(df, new) ==
    IF df = <<>> THEN <<new>>
    ELSE LET cols == Keys(df[1]) \o
                     SelectSeq(Keys(new), LAMBDA k : ~HasKey(df[1], k))
             all == df \o <<new>>
         IN  [j \in DOMAIN all |->
                 [i \in DOMAIN cols |-> [k |-> cols[i], v |-> Get(all[j], cols[i], NaN)]]]

\* Variant of page_reports with both reads in one try block.
page_reports_one_try(sh, fmFails, newsFails) ==
    LET fm == read_sheet(sh, "financial_metrics")
        news == read_sheet(sh, "news")
        bad == fmFails \/ ~fm.ok \/ newsFails \/ ~news.ok
    IN  [raised |-> FALSE,
         ui |-> <<El("header:Reports"), El("subheader:Financial metrics"),
                  FrameOr(IF bad THEN <<>> ELSE fm.recs, "No data yet"),
                  El("subheader:News"),
                  FrameOr(IF bad THEN <<>> ELSE news.recs, "No data yet")>>]

\* app.py lines 109-122: page_reports.  fmFails and newsFails say whether the
\* store fails the read of that table (network, quota, permission).
page_reports(sh, fmFails, newsFails) ==
    LET fm == read_sheet(sh, "financial_metrics")
        news == read_sheet(sh, "news")
    IN  [raised |-> FALSE,
         ui |-> <<El("header:Reports"), El("subheader:Financial metrics"),
                  FrameOr(IF fmFails \/ ~fm.ok THEN <<>> ELSE fm.recs, "No data yet"),
                  El("subheader:News"),
                  FrameOr(IF newsFails \/ ~news.ok THEN <<>> ELSE news.recs,
                          "No data yet")>>]

\* app.py lines 90-101: page_library.
page_library(folderSet, items) ==
    <<El("header:Library")>> \o
    (IF ~folderSet THEN <<El("info:Set google.drive_top_folder_id")>>
     ELSE (IF items = <<>> THEN <<El("write:No items yet")>> ELSE <<>>) \o
          [i \in DOMAIN items |-> El("write:item")])

\* app.py lines 103-107: page_automations.
page_automations ==
    <<El("header:Automations"), El("write"), El("markdown"), El("info")>>

\* ---------------------------------------------------------------- state
VARIABLES
    sheet,      \* the spreadsheet: its worksheets, in order
    updates,    \* number of update requests the store has accepted
    hasCred,    \* secrets hold google.service_account_json
    pc,         \* per user: where that user's script run stands
    page,       \* per user: the page the navigation radio selects in the run
    ui,         \* per user: the elements the current run has rendered
    rep,        \* per user: which reads the store failed in the last Reports run
    df,         \* per user: the records page_competitors read (line 60)
    readAt,     \* per user: the value of updates when df was read
    ens,        \* the last ensure_sheets call
    subs,       \* per user: that user's last form submission
    wrote,      \* the last upsert_sheet call made through the gateway
    got         \* the read_sheet call made after it, if any

vars ==
    <<sheet, updates, hasCred, pc, page, ui, rep, df, readAt, ens, subs, wrote, got>>

Users == {"u1", "u2"}
\* app.py line 134
Pages == {"Competitors", "Library", "Automations", "Reports"}

AcmeCorp == <<"A", "c", "m", "e", " ", "C", "o", "r", "p">>
\* The names the user of the shell types into the form.
Names == {<<>>, AcmeCorp, <<"X", " ", "4", "2">>}
\* The names concurrent users type into the form.
RaceNames == {AcmeCorp, <<"7">>, <<"n", "a", "n">>}

NoEns ==
    [calls |-> 0, before |-> <<>>, after |-> <<>>, added |-> <<>>, prevAdded |-> <<>>]
NoSub ==
    [done |-> FALSE, before |-> <<>>, new |-> <<>>, base |-> 0, pre |-> 0,
     raised |-> FALSE, after |-> [ok |-> TRUE, recs |-> <<>>]]
NoWrote ==
    [done |-> FALSE, name |-> "", rows |-> <<>>, before |-> <<>>, pre |-> 0,
     raised |-> FALSE]
NoGot == [valid |-> FALSE, name |-> "", ok |-> TRUE, recs |-> <<>>]

\* Tables of the spreadsheet that other tools fill: the application only reads them.
Rec2(k1, v1, k2, v2) == <<[k |-> <<k1>>, v |-> v1], [k |-> <<k2>>, v |-> v2]>>
NewsRows ==
    <<Rec2("title", PyStr(<<"Launch">>), "url", PyStr(<<"https://n/1">>)),
      Rec2("title", PyStr(<<"Merger">>), "url", PyStr(<<"https://n/2">>))>>
MetricRows == <<Rec2("metric", PyStr(<<"revenue">>), "value", PyInt(12))>>
Sheet1 == [title |-> "Sheet1", cells |-> <<>>]
Table(name, rows) ==
    [title |-> name, cells |-> IF rows = <<>> THEN <<>> ELSE Trim(SheetData(rows))]

\* The spreadsheets a behaviour of the shell starts from.
InitSheets ==
    {<<Sheet1>>,
     <<Sheet1, Table("news", NewsRows)>>,
     ensure_sheets(<<Sheet1, Table("financial_metrics", MetricRows)>>).sh,
     ensure_sheets(<<Sheet1, Table("financial_metrics", MetricRows),
                     Table("news", NewsRows)>>).sh}

\* The spreadsheets a behaviour of the concurrent users starts from: a new
\* spreadsheet, or one the application has set up before.
RaceSheets == {<<Sheet1>>, ensure_sheets(<<Sheet1>>).sh}

Start(sheets) ==
    /\ sheet \in sheets
    /\ updates = 0
    /\ hasCred \in BOOLEAN
    /\ pc = [u \in Users |-> "idle"]
    /\ page = [u \in Users |-> "Competitors"]
    /\ ui = [u \in Users |-> <<>>]
    /\ rep = [u \in Users |-> [fm |-> FALSE, news |-> FALSE]]
    /\ df = [u \in Users |-> <<>>]
    /\ readAt = [u \in Users |-> 0]
    /\ ens = NoEns
    /\ subs = [u \in Users |-> NoSub]
    /\ wrote = NoWrote
    /\ got = NoGot

\* A script run is over: finished, halted by st.stop(), or ended by an exception.
Resting(u) == pc[u] \in {"idle", "stopped", "failed"}

\* main() with the credential missing: get_gspread_client() -> get_sa_creds()
\* -> st.stop() (lines 126-136, 13-15).
Stop(u) ==
    /\ Resting(u) /\ ~hasCred
    /\ \E p \in Pages : page' = [page EXCEPT ![u] = p]
    /\ ui' = [ui EXCEPT ![u] = Sidebar]
    /\ pc' = [pc EXCEPT ![u] = "stopped"]
    /\ UNCHANGED <<sheet, updates, hasCred, rep, df, readAt, ens, subs, wrote, got>>

\* main() with page = "Library" (lines 126-150, 90-101).
Library(u) ==
    /\ Resting(u) /\ hasCred
    /\ \E folderSet \in BOOLEAN, items \in {<<>>, <<"f1">>, <<"f1", "f2">>} :
          ui' = [ui EXCEPT ![u] = Sidebar \o page_library(folderSet, items) \o Footer]
    /\ page' = [page EXCEPT ![u] = "Library"]
    /\ pc' = [pc EXCEPT ![u] = "idle"]
    /\ UNCHANGED <<sheet, updates, hasCred, rep, df, readAt, ens, subs, wrote, got>>

\* main() with page = "Automations" (lines 126-150, 103-107).
Automations(u) ==
    /\ Resting(u) /\ hasCred
    /\ ui' = [ui EXCEPT ![u] = Sidebar \o page_automations \o Footer]
    /\ page' = [page EXCEPT ![u] = "Automations"]
    /\ pc' = [pc EXCEPT ![u] = "idle"]
    /\ UNCHANGED <<sheet, updates, hasCred, rep, df, readAt, ens, subs, wrote, got>>

\* main() with page = "Reports" (lines 126-150, 109-122).
Reports(u) ==
    /\ Resting(u) /\ hasCred
    /\ \E fmFails, newsFails \in BOOLEAN :
          LET r == page_reports(sheet, fmFails, newsFails)
          IN  /\ ui' = [ui EXCEPT ![u] =
                            Sidebar \o r.ui \o (IF r.raised THEN <<>> ELSE Footer)]
              /\ pc' = [pc EXCEPT ![u] = IF r.raised THEN "failed" ELSE "idle"]
              /\ rep' = [rep EXCEPT ![u] = [fm |-> fmFails, news |-> newsFails]]
    /\ page' = [page EXCEPT ![u] = "Reports"]
    /\ UNCHANGED <<sheet, updates, hasCred, df, readAt, ens, subs, wrote, got>>

\* main() with page = "Competitors", up to ensure_sheets (lines 126-140, 57-59).
CompEnsure(u) ==
    /\ Resting(u) /\ hasCred
    /\ LET e == ensure_sheets(sheet)
       IN  /\ sheet' = e.sh
           /\ ens' = [calls |-> IF ens.calls < 2 THEN ens.calls + 1 ELSE 2,
                      before |-> sheet, after |-> e.sh, added |-> e.added,
                      prevAdded |-> ens.added]
    /\ ui' = [ui EXCEPT ![u] = Sidebar \o <<El("header:Competitors")>>]
    /\ page' = [page EXCEPT ![u] = "Competitors"]
    /\ pc' = [pc EXCEPT ![u] = "ensured"]
    /\ UNCHANGED <<updates, hasCred, rep, df, readAt, subs, wrote, got>>

\* page_competitors lines 60-63: the table is read and shown.
CompRead(u) ==
    /\ pc[u] = "ensured"
    /\ LET r == read_sheet(sheet, "competitors")
       IN  IF r.ok
           THEN /\ df' = [df EXCEPT ![u] = r.recs]
                /\ readAt' = [readAt EXCEPT ![u] = updates]
                /\ ui' = [ui EXCEPT ![u] =
                              @ \o <<El("subheader:Database"),
                                     FrameOr(r.recs, "No rows yet")>>]
                /\ pc' = [pc EXCEPT ![u] = "loaded"]
           ELSE /\ pc' = [pc EXCEPT ![u] = "failed"]
                /\ UNCHANGED <<df, readAt, ui>>
    /\ UNCHANGED <<sheet, updates, hasCred, page, rep, ens, subs, wrote, got>>

\* page_competitors lines 65-77 with the form not submitted, then lines 148-150.
CompShow(u) ==
    /\ pc[u] = "loaded"
    /\ ui' = [ui EXCEPT ![u] = @ \o <<El("subheader:Add / Edit"), El("form")>> \o Footer]
    /\ pc' = [pc EXCEPT ![u] = "idle"]
    /\ UNCHANGED <<sheet, updates, hasCred, page, rep, df, readAt, ens, subs, wrote, got>>

\* page_competitors lines 65-88 with the form submitted, then lines 148-150.
CompSubmit(u, names) ==
    /\ pc[u] = "loaded"
    /\ updates < MaxSubmits
    /\ \E name \in names :
          LET new == NewRecord(name)
              w == upsert_sheet(sheet, "competitors", ConcatNew(df[u], new))
          IN  /\ sheet' = w.sh
              /\ updates' = updates + w.issued
              /\ subs' = [subs EXCEPT ![u] =
                              [done |-> TRUE, before |-> df[u], new |-> new,
                               base |-> readAt[u], pre |-> updates,
                               raised |-> w.raised,
                               after |-> read_sheet(w.sh, "competitors")]]
              /\ ui' = [ui EXCEPT ![u] =
                            @ \o <<El("subheader:Add / Edit"), El("form")>> \o
                            (IF w.raised THEN <<>>
                             ELSE <<El("success:Saved!")>> \o Footer)]
              /\ pc' = [pc EXCEPT ![u] = IF w.raised THEN "failed" ELSE "idle"]
    /\ UNCHANGED <<hasCred, page, rep, df, readAt, ens, wrote, got>>

\* The application shell: one user's script runs over the four pages.
ShellNext ==
    \/ Stop("u1")
    \/ Library("u1")
    \/ Automations("u1")
    \/ Reports("u1")
    \/ CompEnsure("u1")
    \/ CompRead("u1")
    \/ CompShow("u1")
    \/ CompSubmit("u1", Names)

ShellInit == Start(InitSheets)

SpecShell == ShellInit /\ [][ShellNext]_vars

\* The Competitors page under concurrent users: every user's script runs
\* interleave at the calls to the store.
Next ==
    \E u \in Users :
        \/ Stop(u)
        \/ CompEnsure(u)
        \/ CompRead(u)
        \/ CompShow(u)
        \/ CompSubmit(u, RaceNames)

Init == Start(RaceSheets)

Spec == Init /\ [][Next]_vars

\* ------------------------------------------------------- the gateway
\* read_sheet and upsert_sheet called directly, on a table that an earlier
\* upsert_sheet call has filled.
Rec1(k1, v1) == <<[k |-> <<k1>>, v |-> v1]>>
RecPool ==
    {Rec1("a", PyStr(<<"x">>)),
     Rec1("a", Blank),
     Rec2("a", PyStr(<<"x">>), "b", PyStr(<<"y">>)),
     Rec2("b", PyStr(<<"7">>), "a", PyTrue),
     Rec1("b", PyStr(<<"y">>))}

RECURSIVE SeqsUpTo(_, _)
SeqsUpTo(S, n) ==
    IF n = 0 THEN {<<>>}
    ELSE LET shorter == SeqsUpTo(S, n - 1)
         IN  shorter \cup {Append(q, x) : q \in shorter, x \in S}

RecLists == SeqsUpTo(RecPool, MaxRecs)
GwNames == {"competitors", "files"}

GwInit ==
    /\ \E prior \in RecLists :
          sheet = upsert_sheet(<<Sheet1, Table("competitors", <<>>)>>,
                               "competitors", prior).sh
    /\ updates = 0
    /\ hasCred = TRUE
    /\ pc = [u \in Users |-> "idle"]
    /\ page = [u \in Users |-> "Competitors"]
    /\ ui = [u \in Users |-> <<>>]
    /\ rep = [u \in Users |-> [fm |-> FALSE, news |-> FALSE]]
    /\ df = [u \in Users |-> <<>>]
    /\ readAt = [u \in Users |-> 0]
    /\ ens = NoEns
    /\ subs = [u \in Users |-> NoSub]
    /\ wrote = NoWrote
    /\ got = NoGot

\* upsert_sheet(gc, sheet_id, name, rows) (lines 46-53).
GwUpsert ==
    /\ ~wrote.done
    /\ \E name \in GwNames, rows \in RecLists :
          LET w == upsert_sheet(sheet, name, rows)
          IN  /\ sheet' = w.sh
              /\ updates' = updates + w.issued
              /\ wrote' = [done |-> TRUE, name |-> name, rows |-> rows,
                           before |-> sheet, pre |-> updates, raised |-> w.raised]
    /\ UNCHANGED <<hasCred, pc, page, ui, rep, df, readAt, ens, subs, got>>

\* read_sheet(gc, sheet_id, name) (lines 41-44).
GwRead ==
    /\ wrote.done /\ ~got.valid
    /\ \E name \in GwNames :
          LET r == read_sheet(sheet, name)
          IN  got' = [valid |-> TRUE, name |-> name, ok |-> r.ok, recs |-> r.recs]
    /\ UNCHANGED <<sheet, updates, hasCred, pc, page, ui, rep, df, readAt, ens, subs, wrote>>

GwNext == GwUpsert \/ GwRead

SpecGateway == GwInit /\ [][GwNext]_vars

\* ---------------------------------------------------------- properties
\* A value as read_sheet returns it once it has been written to a cell.
Stored(v) == Numericise(CellText(v))
StoredRec(r) == [i \in DOMAIN r |-> [k |-> r[i].k, v |-> Stored(r[i].v)]]

\* The gateway call wrote.name = "competitors" with records, without raising.
WroteRows ==
    /\ wrote.done /\ wrote.name = "competitors"
    /\ wrote.rows # <<>> /\ ~wrote.raised
ReadAfterWrite == WroteRows /\ got.valid /\ got.name = "competitors"
CellsBefore == Cells(wrote.before, "competitors")
CellsNow == Cells(sheet, "competitors")
FirstKeys == Keys(wrote.rows[1])
\* The keys some later record has and the first record lacks.
LateKeys ==
    {k \in UNION {Range(Keys(wrote.rows[j])) : j \in DOMAIN wrote.rows} :
        ~HasKey(wrote.rows[1], k)}

\* C1: upsert_sheet with an empty record sequence leaves the spreadsheet as it
\* was, every cell of the target table included, and issues no update request.
C1_EmptyWriteIsNoOp ==
    (wrote.done /\ wrote.rows = <<>>) =>
        /\ sheet = wrote.before
        /\ updates = wrote.pre
        /\ ~HasSheet(sheet, wrote.name) <=> wrote.raised

\* C1 witness: an empty write was made to a table that held rows.
C1_Witness ==
    /\ wrote.done /\ wrote.rows = <<>> /\ wrote.name = "competitors"
    /\ Len(CellsBefore) > 1 /\ CellsNow = CellsBefore

\* C2: after upsert_sheet with a non-empty sequence, whatever the table held,
\* read_sheet returns one record per written record, in order, whose fields
\* equal the written values (as texts) for every key of the first record.
C2_RoundTrip ==
    ReadAfterWrite =>
        /\ got.ok
        /\ Len(got.recs) = Len(wrote.rows)
        /\ \A j \in DOMAIN wrote.rows : \A i \in DOMAIN FirstKeys :
              HasKey(wrote.rows[j], FirstKeys[i]) =>
                  /\ HasKey(got.recs[j], FirstKeys[i])
                  /\ CellText(Get(got.recs[j], FirstKeys[i], Blank)) =
                         CellText(Get(wrote.rows[j], FirstKeys[i], Blank))

\* C9: after upsert_sheet with a non-empty sequence the table holds the header
\* row of the first record's keys, one row per record with the empty string
\* for a missing key, and nothing else: no cell of its earlier contents.
C9_FullOverwrite ==
    WroteRows =>
        \A r \in 1..Max(Len(CellsBefore), Len(wrote.rows) + 1) :
            \A c \in 1..Max(Width(CellsBefore), Len(FirstKeys)) :
                CellAt(CellsNow, r, c) =
                    IF c > Len(FirstKeys) \/ r > Len(wrote.rows) + 1 THEN Blank
                    ELSE IF r = 1 THEN PyStr(FirstKeys[c])
                    ELSE Get(wrote.rows[r - 1], FirstKeys[c], Blank)

Saved(u) == \E i \in DOMAIN ui[u] : ui[u][i] = El("success:Saved!")
TableNow == read_sheet(sheet, "competitors")
Last(q) == q[Len(q)]

\* u and v read the same version of the table, both wrote without raising,
\* u first and v after, and v's write is the latest.
Raced(u, v) ==
    /\ u # v /\ subs[u].done /\ subs[v].done
    /\ ~subs[u].raised /\ ~subs[v].raised
    /\ subs[u].base = subs[v].base
    /\ subs[u].pre < subs[v].pre
    /\ updates = subs[v].pre + 1

\* C4: when two submissions read the same table and then both write, nothing
\* detects the conflict: both writes are accepted, and the table then holds
\* what both read followed by the last writer's record alone.
C4_LastWriterWins ==
    \A u, v \in Users :
        Raced(u, v) =>
            /\ subs[u].before = subs[v].before
            /\ TableNow.ok
            /\ TableNow.recs = subs[v].before \o <<StoredRec(subs[v].new)>>
            /\ Len(TableNow.recs) = Len(subs[u].before) + 1

\* C4 witness: both users saw "Saved!" and the first writer's record is lost.
C4_LostUpdate ==
    \E u, v \in Users :
        /\ Raced(u, v) /\ Saved(u) /\ Saved(v)
        /\ subs[u].new # subs[v].new
        /\ Last(TableNow.recs) = StoredRec(subs[v].new)
        /\ \A j \in DOMAIN TableNow.recs : TableNow.recs[j] # StoredRec(subs[u].new)

\* C5: after ensure_sheets every needed table exists exactly once and the
\* worksheets that existed are unchanged; a call made when the five tables
\* exist, as after any earlier call, adds nothing.
C5_EnsureIdempotent ==
    ens.calls > 0 =>
        /\ \A i \in DOMAIN needed :
              Cardinality({j \in DOMAIN sheet : sheet[j].title = needed[i]}) = 1
        /\ Titles(sheet) = Titles(ens.after)
        /\ SubSeq(ens.after, 1, Len(ens.before)) = ens.before
        /\ Len(ens.after) = Len(ens.before) + Len(ens.added)
        /\ ens.added = SelectSeq(needed, LAMBDA n : ~HasSheet(ens.before, n))
        /\ ens.calls > 1 => (ens.added = <<>> /\ ens.after = ens.before)

\* C5 witness: a first call added tables next to one that existed with rows,
\* and the call after it added none.
C5_Witness ==
    /\ ens.calls = 2 /\ ens.prevAdded # <<>> /\ ens.added = <<>>
    /\ Len(sheet) = Len(needed) + 1
    /\ Cells(sheet, "news") # <<>>

\* The frames of the Reports page: elements 7 and 9 of the run's output.
FmFrame(u) == ui[u][Len(Sidebar) + 3]
NewsFrame(u) == ui[u][Len(Sidebar) + 5]
Shown(read, fails) ==
    IF ~fails /\ read.ok /\ read.recs # <<>> THEN Frame(read.recs)
    ELSE Frame(Info("No data yet"))

\* C6: a Reports run never ends in an exception; each table whose read
\* succeeded is shown with its rows whether or not the other read failed, and
\* a table whose read failed is shown as the empty placeholder.
C6_ReportsReadsIndependent ==
    \A u \in Users :
        (page[u] = "Reports" /\ hasCred) =>
            /\ pc[u] = "idle"
            /\ Len(ui[u]) = Len(Sidebar) + 5 + Len(Footer)
            /\ FmFrame(u) = Shown(read_sheet(sheet, "financial_metrics"), rep[u].fm)
            /\ NewsFrame(u) = Shown(read_sheet(sheet, "news"), rep[u].news)

\* C6 witness: the financial_metrics read failed and the news rows are shown.
C6_Witness ==
    /\ page["u1"] = "Reports" /\ rep["u1"].fm /\ ~rep["u1"].news
    /\ pc["u1"] = "idle"
    /\ HasSheet(sheet, "financial_metrics")
    /\ FmFrame("u1") = Frame(Info("No data yet"))
    /\ NewsFrame("u1") = Frame([j \in DOMAIN NewsRows |-> StoredRec(NewsRows[j])])

\* C7: when the credential is missing the run halts with nothing rendered,
\* and no page controller and no call to the store has run.
C7_NoPartialUI ==
    \A u \in Users :
        pc[u] = "stopped" =>
            /\ ui[u] = <<>>
            /\ ens.calls = 0 /\ updates = 0 /\ ~subs[u].done

IsUpper(c) == c \in Range(UpperCase)
NameOf(r) == Get(r, <<"name">>, NaN).s
IdOf(r) == Get(r, <<"id">>, NaN)

\* C8: the identifier of a submitted record is a str as long as the name,
\* with "-" where the name has a space, the lower-case letter where it has an
\* upper-case one and the name's character elsewhere: "Acme Corp" gives
\* "acme-corp" and the empty name the empty string; it is what the table's
\* last row then holds as id.
C8_IdentifierDerivation ==
    \A u \in Users :
        subs[u].done =>
            LET name == NameOf(subs[u].new)
                id == IdOf(subs[u].new)
            IN  /\ id.t = "str" /\ Len(id.s) = Len(name)
                /\ \A i \in DOMAIN name :
                      /\ name[i] = " " => id.s[i] = "-"
                      /\ IsUpper(name[i]) =>
                            \E n \in DOMAIN UpperCase :
                                name[i] = UpperCase[n] /\ id.s[i] = LowerCase[n]
                      /\ (name[i] # " " /\ ~IsUpper(name[i])) => id.s[i] = name[i]
                /\ name = AcmeCorp =>
                      id.s = <<"a", "c", "m", "e", "-", "c", "o", "r", "p">>
                /\ name = <<>> => id.s = <<>>
                /\ ~subs[u].raised =>
                      IdOf(Last(subs[u].after.recs)) = Stored(id)

\* C8 witness: "Acme Corp" was submitted and saved.
C8_Witness ==
    /\ subs["u1"].done /\ ~subs["u1"].raised
    /\ NameOf(subs["u1"].new) = AcmeCorp
    /\ IdOf(Last(TableNow.recs)) = PyStr(<<"a", "c", "m", "e", "-", "c", "o", "r", "p">>)

\* C10: a submission whose write no other write preceded since its read is
\* saved, and the table then reads as the records read before, unchanged and
\* in order, followed by the new record.
C10_AppendsOne ==
    \A u \in Users :
        (subs[u].done /\ subs[u].base = subs[u].pre) =>
            /\ ~subs[u].raised
            /\ subs[u].after.ok
            /\ subs[u].after.recs = subs[u].before \o <<StoredRec(subs[u].new)>>
====
